---- MODULE Spec2Model ----
(***************************************************************************)
(* The STL viewer of 3dshape-explorer: the model-loading effects of the    *)
(* ThreeViewer component in the versions the repository holds, and the     *)
(* useModelLoader hook.  Each version is one value of `variant`; a         *)
(* behaviour runs one version from its mount on.                           *)
(*                                                                         *)
(*   viewer     src/src/components/ThreeViewer.tsx        (callbacks)      *)
(*   hook       src/src/components/three/useModelLoader.ts, lines 87-176   *)
(*   promise    src/unnamed/part_001, lines 11-194        (async loadModel)*)
(*   optimized  src/unnamed/part_001, lines 218-466       (detail levels)  *)
(*   effect     src/unnamed/part_001, lines 480-640       (callbacks)      *)
(*                                                                         *)
(* A mesh is named by the number of the load that created it.              *)
(***************************************************************************)
EXTENDS Integers, Sequences, FiniteSets, TLC

\* Bounds of the model: the loads started, the largest dimension of a loaded
\* bounding box, the levels of a payload, the distances the user moves the
\* camera to.  The version with detail levels has its own two.
MaxLoads == 3
MaxLodLoads == 2
MaxDim == 1
MaxLodDim == 2
MaxLevels == 3
MaxDist == 4
MaxCentre == 1
MaxUploads == 2
MaxToasts == 2

----------------------------------------------------------------------------
(* JavaScript numbers: the finite values are non-negative fractions n/d,   *)
(* and division keeps IEEE-754's results for a zero divisor.               *)

RECURSIVE GCD(_, _)
GCD(a, b) == IF b = 0 THEN a ELSE GCD(b, a % b)

Fin(n, d) == [k |-> "fin", n |-> n \div GCD(n, d), d |-> d \div GCD(n, d)]
Inf == [k |-> "inf", n |-> 1, d |-> 0]
NaN == [k |-> "nan", n |-> 0, d |-> 0]
Num(i) == Fin(i, 1)

\* a / b
FDiv(a, b) ==
  IF a.k = "nan" \/ b.k = "nan" THEN NaN
  ELSE IF a.k = "inf" THEN (IF b.k = "inf" THEN NaN ELSE Inf)
  ELSE IF b.k = "inf" THEN Num(0)
  ELSE IF b.n = 0 THEN (IF a.n = 0 THEN NaN ELSE Inf)
  ELSE Fin(a.n * b.d, a.d * b.n)

\* a * b
FMul(a, b) ==
  IF a.k = "nan" \/ b.k = "nan" THEN NaN
  ELSE IF a.k = "inf" THEN (IF b.n = 0 THEN NaN ELSE Inf)
  ELSE IF b.k = "inf" THEN (IF a.n = 0 THEN NaN ELSE Inf)
  ELSE Fin(a.n * b.n, a.d * b.d)

\* Math.floor(a)
FFloor(a) == IF a.k = "fin" THEN Num(a.n \div a.d) ELSE a

\* a <= b as JavaScript compares numbers: false when either is NaN
FLeq(a, b) ==
  IF a.k = "nan" \/ b.k = "nan" THEN FALSE
  ELSE IF b.k = "inf" THEN TRUE
  ELSE IF a.k = "inf" THEN FALSE
  ELSE a.n * b.d <= b.n * a.d

\* Math.min(a, b)
FMin(a, b) ==
  IF a.k = "nan" \/ b.k = "nan" THEN NaN
  ELSE IF FLeq(a, b) THEN a ELSE b

\* a !== b
StrictNeq(a, b) == a.k = "nan" \/ b.k = "nan" \/ a # b

\* Math.tan((fov * Math.PI) / 360), to three decimals, at the two fields of
\* view the model uses: tan(37.5 deg) = 0.767, tan(0) = 0.
TanHalfFov(fov) == IF fov = 0 THEN Num(0) ELSE Fin(767, 1000)

\* new THREE.PerspectiveCamera(75, ...), and camera.position.z = 5
Fov == 75
InitialCameraZ == 5

\* cameraRef.current?.fov || 75
FovOrDefault(fov) == IF fov = 0 THEN 75 ELSE fov

\* useModelLoader: maxDistance = maxDim / (2 * Math.tan((fov * Math.PI) / 360)),
\* the same expression as cameraDistance of the effect and optimized versions
FitDistance(maxDim, fov) ==
  FDiv(Num(maxDim), FMul(Num(2), TanHalfFov(FovOrDefault(fov))))

\* position.z = maxDistance * 1.5
FitCameraZ(maxDim, fov) == FMul(FitDistance(maxDim, fov), Fin(3, 2))

----------------------------------------------------------------------------
Variants == {"viewer", "hook", "promise", "optimized", "effect"}

NoUrl == "undefined"
StlUrls == {"cube.stl", "blob:1"}
JsonUrls == {"mesh.json"}

NoMesh == 0
NoError == "null"

\* const SAMPLE_MODELS = [...]: the four sample models of the Index page
SAMPLE_MODELS ==
  << [name |-> "Cube",
      url |-> "https://storage.googleapis.com/ucloud-v3/ccab50f18fb14c91ccca300a.stl"],
     [name |-> "Sphere",
      url |-> "https://storage.googleapis.com/ucloud-v3/6cc1b1f18fb14c91ccca300a.stl"],
     [name |-> "Cylinder",
      url |-> "https://storage.googleapis.com/ucloud-v3/7cc2b2f18fb14c91ccca300a.stl"],
     [name |-> "Torus",
      url |-> "https://storage.googleapis.com/ucloud-v3/8cc3b3f18fb14c91ccca300a.stl"] >>

\* The centre of a geometry's bounding box, one coordinate of it: getCenter,
\* center() and position.copy() treat the three coordinates alike.
Centres == (0 - MaxCentre)..MaxCentre

\* geometry.center() moves the geometry by minus the centre c of its bounding
\* box; the position of a new mesh is (0, 0, 0)
Centred == [box |-> 0, pos |-> 0]

\* ThreeViewer: getCenter(center); geometry.center(); mesh.position.copy(center)
ViewerPlaced(c) == [box |-> c - c, pos |-> c]

VARIABLES
  variant,      \* which version of the component runs
  modelUrl,     \* the modelUrl / stlUrl prop
  loads,        \* the loads started, in order: [url, st, lod, shown, camZ, alone]
  scene,        \* the model meshes attached to the scene
  meshRef,      \* meshRef.current: a mesh, or NoMesh
  geomDisposed, \* meshes whose geometry.dispose() was called
  matDisposed,  \* meshes whose material.dispose() was called
  isLoading,    \* the isLoading state
  error,        \* the error state of useModelLoader
  toasts,       \* the toasts shown, in order
  cameraZ,      \* camera.position.z
  meshScale,    \* mesh.scale of each mesh created
  geom,         \* the vertex data each mesh's geometry holds: [data, level]
  listeners,    \* the 'change' listeners added to the orbit controls
  currentLOD,   \* the currentLOD state
  last,         \* the operation that ran last: [op, load, replaced, lods]
  placed,       \* where the last onLoad that succeeded left its mesh: [box, pos]
  mounted,      \* the viewer is mounted: its mount effect ran, its cleanup not
  rafPending,   \* requestAnimationFrame(animate) has a frame scheduled
  selectedModel, \* Index: the selectedModel state
  uploads,      \* Index: the blob URLs URL.createObjectURL has made so far
  expression,   \* Calculator: the expression state
  result        \* Calculator: the result state

vars == <<variant, modelUrl, loads, scene, meshRef, geomDisposed, matDisposed,
          isLoading, error, toasts, cameraZ, meshScale, geom, listeners,
          currentLOD, last, placed, mounted, rafPending, selectedModel,
          uploads, expression, result>>

viewVars == <<mounted, rafPending>>

pageVars == <<selectedModel, uploads, expression, result>>

Pending == {i \in 1..Len(loads) : loads[i].st = "pending"}

\* What ran last: the operation, the load it belongs to, the mesh meshRef held
\* when an onLoad replaced it, and the lodIndex values a 'change' event computed.
Last(op, i, replaced, lods) ==
  [op |-> op, load |-> i, replaced |-> replaced, lods |-> lods]

InitOf(versions) ==
  /\ variant \in versions
  /\ modelUrl = NoUrl
  /\ loads = <<>>
  /\ scene = {}
  /\ meshRef = NoMesh
  /\ geomDisposed = {}
  /\ matDisposed = {}
  /\ isLoading = FALSE
  /\ error = NoError
  /\ toasts = <<>>
  /\ cameraZ = Num(InitialCameraZ)
  /\ meshScale = <<>>
  /\ geom = <<>>
  /\ listeners = <<>>
  /\ currentLOD = Num(0)
  /\ last = Last("mount", 0, NoMesh, <<>>)
  /\ placed = Centred
  /\ mounted = TRUE
  /\ rafPending = TRUE
  /\ selectedModel = SAMPLE_MODELS[1].url
  /\ uploads = 0
  /\ expression = ""
  /\ result = ""

Init == InitOf(Variants \ {"optimized"})

\* loader.load(url, ...) / fetch(url): one more load in flight.  It closes
\* over the state of the render that started it; shown and camZ keep the scene
\* and the camera position the selection found, alone whether it found no
\* other load in flight.
LoadOf(u, st) ==
  [url |-> u, st |-> st, lod |-> currentLOD, shown |-> scene, camZ |-> cameraZ,
   alone |-> (Pending = {})]

StartLoad(u) == Append(loads, LoadOf(u, "pending"))

Finish(i, st) == [loads EXCEPT ![i].st = st]

Toast(kind, msg, i) == Append(toasts, [kind |-> kind, msg |-> msg, load |-> i])

\* RemoveCurrent with the removal of the previous mesh forgotten
RemoveCurrent_Kept == scene

\* if (meshRef.current) sceneRef.current?.remove(meshRef.current)
RemoveCurrent == IF meshRef # NoMesh THEN scene \ {meshRef} ELSE scene

\* new THREE.Mesh(geometry, material): scale (1, 1, 1), the loaded vertex data
NewMesh(i, scale) ==
  /\ meshScale' = meshScale @@ (i :> scale)
  /\ geom' = geom @@ (i :> [data |-> i, level |-> 0])

----------------------------------------------------------------------------
(* ThreeViewer.tsx: the load effect and its onLoad callback.               *)

ViewerEffect(u) ==
  /\ variant = "viewer"
  /\ mounted
  /\ u # modelUrl
  /\ Len(loads) < MaxLoads
  /\ modelUrl' = u
  /\ loads' = StartLoad(u)
  /\ last' = Last("select", Len(loads) + 1, NoMesh, <<>>)
  /\ UNCHANGED <<placed, viewVars, pageVars>>
  /\ UNCHANGED <<variant, scene, meshRef, geomDisposed, matDisposed, isLoading,
                 error, toasts, cameraZ, meshScale, geom, listeners, currentLOD>>

ViewerOnLoad(i, c) ==
  /\ variant = "viewer"
  /\ i \in Pending
  /\ loads' = Finish(i, "ok")
  /\ scene' = RemoveCurrent \cup {i}
  /\ meshRef' = i
  /\ NewMesh(i, Num(1))
  /\ last' = Last("loaded", i, meshRef, <<>>)
  /\ placed' = ViewerPlaced(c)
  /\ UNCHANGED <<viewVars, pageVars>>
  /\ UNCHANGED <<variant, modelUrl, geomDisposed, matDisposed, isLoading, error,
                 toasts, cameraZ, listeners, currentLOD>>

\* The effect passes no onError: a failed load runs no code of the component.
ViewerLoadFails(i) ==
  /\ variant = "viewer"
  /\ i \in Pending
  /\ loads' = Finish(i, "failed")
  /\ last' = Last("failed", i, NoMesh, <<>>)
  /\ UNCHANGED <<placed, viewVars, pageVars>>
  /\ UNCHANGED <<variant, modelUrl, scene, meshRef, geomDisposed, matDisposed,
                 isLoading, error, toasts, cameraZ, meshScale, geom, listeners,
                 currentLOD>>

----------------------------------------------------------------------------
(* useModelLoader.                                                         *)

\* The cleanup the previous run of the effect returned:
\* if (meshRef.current && sceneRef.current) sceneRef.current.remove(meshRef.current)
HookCleanup == IF meshRef # NoMesh THEN scene \ {meshRef} ELSE scene

\* useModelLoaderEffect without its setError(null)
useModelLoaderEffect_KeepsError(u) ==
  /\ variant = "hook"
  /\ mounted
  /\ u # modelUrl
  /\ Len(loads) < MaxLoads
  /\ modelUrl' = u
  /\ scene' = IF modelUrl # NoUrl THEN HookCleanup ELSE scene
  /\ isLoading' = TRUE
  /\ loads' = StartLoad(u)
  /\ last' = Last("select", Len(loads) + 1, NoMesh, <<>>)
  /\ UNCHANGED <<placed, viewVars, pageVars>>
  /\ UNCHANGED <<variant, meshRef, geomDisposed, matDisposed, error, toasts,
                 cameraZ, meshScale, geom, listeners, currentLOD>>

useModelLoaderEffect(u) ==
  /\ variant = "hook"
  /\ mounted
  /\ u # modelUrl
  /\ Len(loads) < MaxLoads
  /\ modelUrl' = u
  /\ scene' = IF modelUrl # NoUrl THEN HookCleanup ELSE scene
  /\ isLoading' = TRUE
  /\ error' = NoError
  /\ loads' = StartLoad(u)
  /\ last' = Last("select", Len(loads) + 1, NoMesh, <<>>)
  /\ UNCHANGED <<placed, viewVars, pageVars>>
  /\ UNCHANGED <<variant, meshRef, geomDisposed, matDisposed, toasts, cameraZ,
                 meshScale, geom, listeners, currentLOD>>

HookOnLoad(i, maxDim) ==
  /\ variant = "hook"
  /\ i \in Pending
  /\ loads' = Finish(i, "ok")
  /\ scene' = RemoveCurrent \cup {i}
  /\ meshRef' = i
  /\ NewMesh(i, Num(1))
  /\ cameraZ' = FitCameraZ(maxDim, Fov)
  /\ isLoading' = FALSE
  /\ error' = NoError
  /\ toasts' = Toast("success", "Model loaded successfully", i)
  /\ last' = Last("loaded", i, meshRef, <<>>)
  /\ placed' = Centred
  /\ UNCHANGED <<viewVars, pageVars>>
  /\ UNCHANGED <<variant, modelUrl, geomDisposed, matDisposed, listeners,
                 currentLOD>>

ThrowPoints == {"material", "mesh", "bbox"}

\* HookOnLoadThrows whose catch forgets setIsLoading(false)
HookOnLoadThrows_StaysLoading(i, at) ==
  /\ variant = "hook"
  /\ i \in Pending
  /\ loads' = Finish(i, "threw")
  /\ scene' = CASE at = "material" -> scene
                [] at = "mesh" -> RemoveCurrent
                [] at = "bbox" -> RemoveCurrent \cup {i}
  /\ meshRef' = IF at = "bbox" THEN i ELSE meshRef
  /\ IF at = "bbox" THEN NewMesh(i, Num(1)) ELSE UNCHANGED <<meshScale, geom>>
  /\ error' = "Error setting up model"
  /\ toasts' = Toast("error", "Failed to setup model", i)
  /\ last' = Last("threw", i, NoMesh, <<>>)
  /\ UNCHANGED <<placed, viewVars, pageVars>>
  /\ UNCHANGED <<variant, modelUrl, geomDisposed, matDisposed, isLoading,
                 cameraZ, listeners, currentLOD>>

\* An exception inside the try of the onLoad callback, thrown while the
\* material is made ("material"), while the mesh is made, after the previous
\* one was removed ("mesh"), or after the mesh was added ("bbox").

HookOnLoadThrows(i, at) ==
  /\ variant = "hook"
  /\ i \in Pending
  /\ loads' = Finish(i, "threw")
  /\ scene' = CASE at = "material" -> scene
                [] at = "mesh" -> RemoveCurrent
                [] at = "bbox" -> RemoveCurrent \cup {i}
  /\ meshRef' = IF at = "bbox" THEN i ELSE meshRef
  /\ IF at = "bbox" THEN NewMesh(i, Num(1)) ELSE UNCHANGED <<meshScale, geom>>
  /\ error' = "Error setting up model"
  /\ isLoading' = FALSE
  /\ toasts' = Toast("error", "Failed to setup model", i)
  /\ last' = Last("threw", i, NoMesh, <<>>)
  /\ UNCHANGED <<placed, viewVars, pageVars>>
  /\ UNCHANGED <<variant, modelUrl, geomDisposed, matDisposed, cameraZ,
                 listeners, currentLOD>>

\* HookOnError without its setIsLoading(false)
HookOnError_StaysLoading(i) ==
  /\ variant = "hook"
  /\ i \in Pending
  /\ loads' = Finish(i, "failed")
  /\ error' = "Failed to load model"
  /\ toasts' = Toast("error", "Failed to load model", i)
  /\ last' = Last("failed", i, NoMesh, <<>>)
  /\ UNCHANGED <<placed, viewVars, pageVars>>
  /\ UNCHANGED <<variant, modelUrl, scene, meshRef, geomDisposed, matDisposed,
                 isLoading, cameraZ, meshScale, geom, listeners, currentLOD>>

\* HookOnError that also detaches the mesh meshRef holds
HookOnError_Detaches(i) ==
  /\ variant = "hook"
  /\ i \in Pending
  /\ loads' = Finish(i, "failed")
  /\ scene' = RemoveCurrent
  /\ error' = "Failed to load model"
  /\ isLoading' = FALSE
  /\ toasts' = Toast("error", "Failed to load model", i)
  /\ last' = Last("failed", i, NoMesh, <<>>)
  /\ UNCHANGED <<placed, viewVars, pageVars>>
  /\ UNCHANGED <<variant, modelUrl, meshRef, geomDisposed, matDisposed,
                 cameraZ, meshScale, geom, listeners, currentLOD>>

HookOnError(i) ==
  /\ variant = "hook"
  /\ i \in Pending
  /\ loads' = Finish(i, "failed")
  /\ error' = "Failed to load model"
  /\ isLoading' = FALSE
  /\ toasts' = Toast("error", "Failed to load model", i)
  /\ last' = Last("failed", i, NoMesh, <<>>)
  /\ UNCHANGED <<placed, viewVars, pageVars>>
  /\ UNCHANGED <<variant, modelUrl, scene, meshRef, geomDisposed, matDisposed,
                 cameraZ, meshScale, geom, listeners, currentLOD>>

----------------------------------------------------------------------------
(* part_001, first component: the promise-based loadModel.                 *)

\* const scale = 2 / maxDim
FitScale(maxDim) == FDiv(Num(2), Num(maxDim))

\* const cameraDistance = (maxDim * 1.5) / Math.tan((fov * Math.PI) / 360)
PromiseCameraZ(maxDim, fov) ==
  FDiv(FMul(Num(maxDim), Fin(3, 2)), TanHalfFov(fov))

\* loadModel up to its await: setIsLoading(true), then "Clear existing mesh"
loadModelStart(u) ==
  /\ variant = "promise"
  /\ mounted
  /\ u # modelUrl
  /\ Len(loads) < MaxLoads
  /\ modelUrl' = u
  /\ isLoading' = TRUE
  /\ scene' = RemoveCurrent
  /\ geomDisposed' = IF meshRef # NoMesh THEN geomDisposed \cup {meshRef}
                     ELSE geomDisposed
  /\ matDisposed' = IF meshRef # NoMesh THEN matDisposed \cup {meshRef}
                    ELSE matDisposed
  /\ loads' = StartLoad(u)
  /\ last' = Last("select", Len(loads) + 1, NoMesh, <<>>)
  /\ UNCHANGED <<placed, viewVars, pageVars>>
  /\ UNCHANGED <<variant, meshRef, error, toasts, cameraZ, meshScale, geom,
                 listeners, currentLOD>>

\* loadModel after its await resolved
loadModelResolved(i, maxDim) ==
  /\ variant = "promise"
  /\ i \in Pending
  /\ loads' = Finish(i, "ok")
  /\ NewMesh(i, FitScale(maxDim))
  /\ cameraZ' = PromiseCameraZ(maxDim, Fov)
  /\ scene' = scene \cup {i}
  /\ meshRef' = i
  /\ isLoading' = FALSE
  /\ toasts' = Toast("success", "Model loaded successfully", i)
  /\ last' = Last("loaded", i, meshRef, <<>>)
  /\ placed' = Centred
  /\ UNCHANGED <<viewVars, pageVars>>
  /\ UNCHANGED <<variant, modelUrl, geomDisposed, matDisposed, error, listeners,
                 currentLOD>>

\* loadModel's catch, the awaited promise rejected
loadModelRejected(i) ==
  /\ variant = "promise"
  /\ i \in Pending
  /\ loads' = Finish(i, "failed")
  /\ isLoading' = FALSE
  /\ toasts' = Toast("error", "Failed to load model. Please check if the file is a valid STL.", i)
  /\ last' = Last("failed", i, NoMesh, <<>>)
  /\ UNCHANGED <<placed, viewVars, pageVars>>
  /\ UNCHANGED <<variant, modelUrl, scene, meshRef, geomDisposed, matDisposed,
                 error, cameraZ, meshScale, geom, listeners, currentLOD>>

----------------------------------------------------------------------------
(* part_001, third component: the load effect with callbacks.              *)

EffectRun(u) ==
  /\ variant = "effect"
  /\ mounted
  /\ u # modelUrl
  /\ Len(loads) < MaxLoads
  /\ modelUrl' = u
  /\ isLoading' = TRUE
  /\ loads' = StartLoad(u)
  /\ last' = Last("select", Len(loads) + 1, NoMesh, <<>>)
  /\ UNCHANGED <<placed, viewVars, pageVars>>
  /\ UNCHANGED <<variant, scene, meshRef, geomDisposed, matDisposed, error,
                 toasts, cameraZ, meshScale, geom, listeners, currentLOD>>

\* loader.load itself throws: the catch around it
EffectRunThrows(u) ==
  /\ variant = "effect"
  /\ mounted
  /\ u # modelUrl
  /\ Len(loads) < MaxLoads
  /\ modelUrl' = u
  /\ isLoading' = FALSE
  /\ loads' = Append(loads, LoadOf(u, "threw"))
  /\ toasts' = Toast("error", "Failed to load model", Len(loads) + 1)
  /\ last' = Last("threw", Len(loads) + 1, NoMesh, <<>>)
  /\ UNCHANGED <<placed, viewVars, pageVars>>
  /\ UNCHANGED <<variant, scene, meshRef, geomDisposed, matDisposed, error,
                 cameraZ, meshScale, geom, listeners, currentLOD>>

EffectOnLoad(i, maxDim) ==
  /\ variant = "effect"
  /\ i \in Pending
  /\ loads' = Finish(i, "ok")
  /\ NewMesh(i, Num(1))
  /\ cameraZ' = FitCameraZ(maxDim, Fov)
  /\ scene' = RemoveCurrent \cup {i}
  /\ meshRef' = i
  /\ isLoading' = FALSE
  /\ toasts' = Toast("success", "Model loaded successfully", i)
  /\ last' = Last("loaded", i, meshRef, <<>>)
  /\ placed' = Centred
  /\ UNCHANGED <<viewVars, pageVars>>
  /\ UNCHANGED <<variant, modelUrl, geomDisposed, matDisposed, error, listeners,
                 currentLOD>>

\* An exception in the onLoad callback, which has no try of its own, thrown
\* after the previous mesh was removed.  STLLoader.load calls onLoad inside a
\* try and hands what it throws to the onError callback passed with it.
EffectOnLoadThrows(i) ==
  /\ variant = "effect"
  /\ i \in Pending
  /\ loads' = Finish(i, "threw")
  /\ scene' = RemoveCurrent
  /\ isLoading' = FALSE
  /\ toasts' = Toast("error", "Failed to load model", i)
  /\ last' = Last("threw", i, NoMesh, <<>>)
  /\ UNCHANGED <<placed, viewVars, pageVars>>
  /\ UNCHANGED <<variant, modelUrl, meshRef, geomDisposed, matDisposed, error,
                 cameraZ, meshScale, geom, listeners, currentLOD>>

EffectOnError(i) ==
  /\ variant = "effect"
  /\ i \in Pending
  /\ loads' = Finish(i, "failed")
  /\ isLoading' = FALSE
  /\ toasts' = Toast("error", "Failed to load model", i)
  /\ last' = Last("failed", i, NoMesh, <<>>)
  /\ UNCHANGED <<placed, viewVars, pageVars>>
  /\ UNCHANGED <<variant, modelUrl, scene, meshRef, geomDisposed, matDisposed,
                 error, cameraZ, meshScale, geom, listeners, currentLOD>>

----------------------------------------------------------------------------
(* part_001, second component: detail levels (loadOptimizedModel).  The    *)
(* camera stays on the z axis and the mesh at the origin, so the distance  *)
(* from the camera to the mesh is camera.position.z.                       *)

\* const lodIndex = Math.min(
\*   Math.floor((distance / maxDistance) * data.levels.length),
\*   data.levels.length - 1), with maxDistance = cameraDistance * 2
LodIndex(distance, cameraDistance, nLevels) ==
  FMin(FFloor(FMul(FDiv(distance, FMul(cameraDistance, Num(2))), Num(nLevels))),
       Num(nLevels - 1))

\* data.levels[x] is a level: x is an integer in 0 .. levels.length - 1
ValidIndex(x, nLevels) == x.k = "fin" /\ x.d = 1 /\ x.n \in 0..(nLevels - 1)

\* updateLOD(data.levels[level]): the geometry of meshRef.current takes the
\* vertices, faces and normals of that level
updateLOD(g, data, level) ==
  IF meshRef = NoMesh THEN g
  ELSE [g EXCEPT ![meshRef] = [data |-> data, level |-> level]]

\* One 'change' listener: l.lod is the currentLOD its closure holds.  st
\* carries the currentLOD state, the geometries, the lodIndex values computed
\* and whether a listener threw.
OnChange(l, distance, st) ==
  LET lodIndex == LodIndex(distance, l.cameraDistance, l.levels)
      seen == Append(st.lods, [idx |-> lodIndex, levels |-> l.levels])
  IN IF meshRef = NoMesh THEN st
     ELSE IF ~StrictNeq(lodIndex, l.lod) THEN [st EXCEPT !.lods = seen]
     ELSE IF ValidIndex(lodIndex, l.levels)
       THEN [st EXCEPT !.lod = lodIndex, !.lods = seen,
                       !.geom = updateLOD(st.geom, l.data, lodIndex.n)]
       \* data.levels[lodIndex] is undefined: updateLOD throws on level.vertices
       ELSE [st EXCEPT !.lod = lodIndex, !.lods = seen, !.thrown = TRUE]

\* dispatchEvent({ type: 'change' }): the listeners in the order they were
\* added; an exception ends the dispatch
RECURSIVE Dispatch(_, _, _)
Dispatch(k, distance, st) ==
  IF k > Len(listeners) \/ st.thrown THEN st
  ELSE Dispatch(k + 1, distance, OnChange(listeners[k], distance, st))

OptimizedEffect(u) ==
  /\ variant = "optimized"
  /\ mounted
  /\ u # modelUrl
  /\ Len(loads) < MaxLodLoads
  /\ modelUrl' = u
  /\ isLoading' = TRUE
  /\ loads' = StartLoad(u)
  /\ last' = Last("select", Len(loads) + 1, NoMesh, <<>>)
  /\ UNCHANGED <<placed, viewVars, pageVars>>
  /\ UNCHANGED <<variant, scene, meshRef, geomDisposed, matDisposed, error,
                 toasts, cameraZ, meshScale, geom, listeners, currentLOD>>

\* loadOptimizedModel after its awaits: a payload of nLevels levels whose
\* level 0 has a bounding box of largest dimension maxDim
loadOptimizedModel(i, maxDim, nLevels) ==
  /\ variant = "optimized"
  /\ i \in Pending
  /\ loads[i].url \in JsonUrls
  /\ loads' = Finish(i, "ok")
  /\ scene' = RemoveCurrent \cup {i}
  /\ meshRef' = i
  /\ NewMesh(i, Num(1))
  /\ cameraZ' = FitCameraZ(maxDim, Fov)
  /\ isLoading' = FALSE
  /\ toasts' = Toast("success", "Model loaded successfully", i)
  /\ listeners' = Append(listeners,
       [data |-> i, levels |-> nLevels,
        cameraDistance |-> FitDistance(maxDim, Fov), lod |-> loads[i].lod])
  /\ last' = Last("loaded", i, meshRef, <<>>)
  /\ placed' = Centred
  /\ UNCHANGED <<viewVars, pageVars>>
  /\ UNCHANGED <<variant, modelUrl, geomDisposed, matDisposed, error,
                 currentLOD>>

\* loadOptimizedModel's catch: the fetch failed, the format is not
\* 'optimized-mesh', or the payload has no level
loadOptimizedModelFails(i) ==
  /\ variant = "optimized"
  /\ i \in Pending
  /\ loads[i].url \in JsonUrls
  /\ loads' = Finish(i, "failed")
  /\ isLoading' = FALSE
  /\ toasts' = Toast("error", "Failed to load model", i)
  /\ last' = Last("failed", i, NoMesh, <<>>)
  /\ UNCHANGED <<placed, viewVars, pageVars>>
  /\ UNCHANGED <<variant, modelUrl, scene, meshRef, geomDisposed, matDisposed,
                 error, cameraZ, meshScale, geom, listeners, currentLOD>>

OptimizedStlOnLoad(i, maxDim) ==
  /\ variant = "optimized"
  /\ i \in Pending
  /\ loads[i].url \in StlUrls
  /\ loads' = Finish(i, "ok")
  /\ scene' = RemoveCurrent \cup {i}
  /\ meshRef' = i
  /\ NewMesh(i, Num(1))
  /\ cameraZ' = FitCameraZ(maxDim, Fov)
  /\ isLoading' = FALSE
  /\ toasts' = Toast("success", "Model loaded successfully", i)
  /\ last' = Last("loaded", i, meshRef, <<>>)
  /\ placed' = Centred
  /\ UNCHANGED <<viewVars, pageVars>>
  /\ UNCHANGED <<variant, modelUrl, geomDisposed, matDisposed, error, listeners,
                 currentLOD>>

OptimizedStlOnError(i) ==
  /\ variant = "optimized"
  /\ i \in Pending
  /\ loads[i].url \in StlUrls
  /\ loads' = Finish(i, "failed")
  /\ isLoading' = FALSE
  /\ toasts' = Toast("error", "Failed to load model", i)
  /\ last' = Last("failed", i, NoMesh, <<>>)
  /\ UNCHANGED <<placed, viewVars, pageVars>>
  /\ UNCHANGED <<variant, modelUrl, scene, meshRef, geomDisposed, matDisposed,
                 error, cameraZ, meshScale, geom, listeners, currentLOD>>

\* The orbit controls dispatch 'change': the user moved the camera to
\* distance z, or controls.update() found the camera where the loader put it.
ControlsChange(z) ==
  /\ variant = "optimized"
  /\ LET st == Dispatch(1, z, [lod |-> currentLOD, geom |-> geom,
                               lods |-> <<>>, thrown |-> FALSE])
     IN /\ cameraZ' = z
        /\ currentLOD' = st.lod
        /\ geom' = st.geom
        /\ last' = Last("change", 0, NoMesh, st.lods)
  /\ UNCHANGED <<placed, viewVars, pageVars>>
  /\ UNCHANGED <<variant, modelUrl, loads, scene, meshRef, geomDisposed,
                 matDisposed, isLoading, error, toasts, meshScale, listeners>>

Distances == {Num(d) : d \in 1..MaxDist}

----------------------------------------------------------------------------
(* Index.tsx: the page, with the sample buttons and the file input.        *)

SampleUrls == {SAMPLE_MODELS[k].url : k \in DOMAIN SAMPLE_MODELS}

\* URL.createObjectURL(file): a blob URL no earlier call returned
createObjectURL(n) == "blob:" \o ToString(n)

BlobUrls == {createObjectURL(n) : n \in 1..uploads}

\* event.target.files of a change event: no file, or one
FileLists == {<<>>, <<"model.stl">>}

\* onClick={() => setSelectedModel(model.url)}
SampleClick(k) ==
  /\ variant = "page"
  /\ selectedModel' = SAMPLE_MODELS[k].url
  /\ last' = Last("click", 0, NoMesh, <<>>)
  /\ UNCHANGED <<uploads, expression, result, toasts>>
  /\ UNCHANGED <<placed, viewVars>>
  /\ UNCHANGED <<variant, modelUrl, loads, scene, meshRef, geomDisposed,
                 matDisposed, isLoading, error, cameraZ, meshScale, geom,
                 listeners, currentLOD>>

\* handleFileUpload with the if (file) test dropped
handleFileUpload_Unguarded(files) ==
  /\ variant = "page"
  /\ uploads < MaxUploads /\ Len(toasts) < MaxToasts
  /\ uploads' = uploads + 1
  /\ selectedModel' = IF files # <<>> THEN createObjectURL(uploads + 1)
                      ELSE "undefined"
  /\ toasts' = Toast("success", "Model loaded successfully!", 0)
  /\ last' = Last(IF files # <<>> THEN "upload" ELSE "nofile", 0, NoMesh, <<>>)
  /\ UNCHANGED <<expression, result>>
  /\ UNCHANGED <<placed, viewVars>>
  /\ UNCHANGED <<variant, modelUrl, loads, scene, meshRef, geomDisposed,
                 matDisposed, isLoading, error, cameraZ, meshScale, geom,
                 listeners, currentLOD>>

\* const file = event.target.files?.[0]; if (file) { ... }
handleFileUpload(files) ==
  /\ variant = "page"
  /\ IF files # <<>>
       THEN /\ uploads < MaxUploads /\ Len(toasts) < MaxToasts
            /\ uploads' = uploads + 1
            /\ selectedModel' = createObjectURL(uploads + 1)
            /\ toasts' = Toast("success", "Model loaded successfully!", 0)
            /\ last' = Last("upload", 0, NoMesh, <<>>)
       ELSE /\ last' = Last("nofile", 0, NoMesh, <<>>)
            /\ UNCHANGED <<uploads, selectedModel, toasts>>
  /\ UNCHANGED <<expression, result>>
  /\ UNCHANGED <<placed, viewVars>>
  /\ UNCHANGED <<variant, modelUrl, loads, scene, meshRef, geomDisposed,
                 matDisposed, isLoading, error, cameraZ, meshScale, geom,
                 listeners, currentLOD>>

----------------------------------------------------------------------------
(* part_000: the Calculator.                                               *)

\* What the user can type.  The text is evaluated as code in the scope of
\* calculateExpression, where setResult and setExpression are in reach.
Expressions ==
  {"", "1+1", "2*3", "1+", "null", "setResult('x'), null",
   "setExpression('1+1'), undefined"}

\* eval(expression): the setter calls the code makes while it runs (calls),
\* and how it ends: with a value (text is its toString()), with undefined or
\* null, or with an exception.
eval(e) ==
  CASE e = "" -> [calls |-> <<>>, kind |-> "undefined", text |-> ""]
    [] e = "1+1" -> [calls |-> <<>>, kind |-> "value", text |-> "2"]
    [] e = "2*3" -> [calls |-> <<>>, kind |-> "value", text |-> "6"]
    [] e = "1+" -> [calls |-> <<>>, kind |-> "throws", text |-> ""]
    [] e = "null" -> [calls |-> <<>>, kind |-> "null", text |-> ""]
    [] e = "setResult('x'), null" ->
         [calls |-> <<[set |-> "result", to |-> "x"]>>,
          kind |-> "null", text |-> ""]
    [] e = "setExpression('1+1'), undefined" ->
         [calls |-> <<[set |-> "expression", to |-> "1+1"]>>,
          kind |-> "undefined", text |-> ""]

\* The state a setter leaves after the calls cs, in order
RECURSIVE AfterCalls(_, _, _)
AfterCalls(cs, which, v) ==
  IF cs = <<>> THEN v
  ELSE AfterCalls(Tail(cs), which,
                  IF Head(cs).set = which THEN Head(cs).to ELSE v)

\* onChange={(e) => setExpression(e.target.value)}
setExpression(e) ==
  /\ variant = "page"
  /\ e # expression
  /\ expression' = e
  /\ last' = Last("input", 0, NoMesh, <<>>)
  /\ UNCHANGED <<selectedModel, uploads, result, toasts>>
  /\ UNCHANGED <<placed, viewVars>>
  /\ UNCHANGED <<variant, modelUrl, loads, scene, meshRef, geomDisposed,
                 matDisposed, isLoading, error, cameraZ, meshScale, geom,
                 listeners, currentLOD>>

\* try { const result = eval(expression); setResult(result.toString());
\*       toast.success(...) } catch (error) { toast.error(...) }
calculateExpression ==
  /\ variant = "page"
  /\ Len(toasts) < MaxToasts
  /\ LET r == eval(expression)
     IN /\ expression' = AfterCalls(r.calls, "expression", expression)
        /\ IF r.kind = "value"
             THEN /\ result' = r.text
                  /\ toasts' = Toast("success", "Calculation completed!", 0)
             ELSE /\ result' = AfterCalls(r.calls, "result", result)
                  /\ toasts' = Toast("error", "Invalid expression", 0)
  /\ last' = Last("calculate", 0, NoMesh, <<>>)
  /\ UNCHANGED <<selectedModel, uploads>>
  /\ UNCHANGED <<placed, viewVars>>
  /\ UNCHANGED <<variant, modelUrl, loads, scene, meshRef, geomDisposed,
                 matDisposed, isLoading, error, cameraZ, meshScale, geom,
                 listeners, currentLOD>>

----------------------------------------------------------------------------
(* The mount effect of ThreeViewer: the animation loop and the cleanup.    *)

\* The versions whose mount effect is in the source
SelfMounted == {"viewer", "promise", "effect"}

\* A scheduled frame fires: requestAnimationFrame(animate); controls.update();
\* renderer.render(scene, camera)
animate ==
  /\ variant \in SelfMounted
  /\ rafPending
  /\ rafPending' = TRUE
  /\ last' = Last("render", 0, NoMesh, <<>>)
  /\ UNCHANGED <<placed, mounted, pageVars>>
  /\ UNCHANGED <<variant, modelUrl, loads, scene, meshRef, geomDisposed,
                 matDisposed, isLoading, error, toasts, cameraZ, meshScale,
                 geom, listeners, currentLOD>>

\* The component unmounts, the cleanup of the mount effect runs:
\* renderer.dispose(); mountRef.current?.removeChild(renderer.domElement).
\* The load effect of these versions returns no cleanup.
Unmount ==
  /\ variant \in SelfMounted
  /\ mounted
  /\ mounted' = FALSE
  /\ last' = Last("unmount", 0, NoMesh, <<>>)
  /\ UNCHANGED <<placed, rafPending, pageVars>>
  /\ UNCHANGED <<variant, modelUrl, loads, scene, meshRef, geomDisposed,
                 matDisposed, isLoading, error, toasts, cameraZ, meshScale,
                 geom, listeners, currentLOD>>

----------------------------------------------------------------------------
Next ==
  \/ \E u \in StlUrls : ViewerEffect(u)
  \/ \E i \in 1..MaxLoads, c \in Centres : ViewerOnLoad(i, c)
  \/ \E i \in 1..MaxLoads : ViewerLoadFails(i)
  \/ \E u \in StlUrls : useModelLoaderEffect(u)
  \/ \E i \in 1..MaxLoads, d \in 0..MaxDim : HookOnLoad(i, d)
  \/ \E i \in 1..MaxLoads, at \in ThrowPoints : HookOnLoadThrows(i, at)
  \/ \E i \in 1..MaxLoads : HookOnError(i)
  \/ \E u \in StlUrls : loadModelStart(u)
  \/ \E i \in 1..MaxLoads, d \in 0..MaxDim : loadModelResolved(i, d)
  \/ \E i \in 1..MaxLoads : loadModelRejected(i)
  \/ \E u \in StlUrls : EffectRun(u)
  \/ \E u \in StlUrls : EffectRunThrows(u)
  \/ \E i \in 1..MaxLoads, d \in 0..MaxDim : EffectOnLoad(i, d)
  \/ \E i \in 1..MaxLoads : EffectOnLoadThrows(i)
  \/ \E i \in 1..MaxLoads : EffectOnError(i)

\* The version with detail levels, on its own
InitLOD == InitOf({"optimized"})

NextLOD ==
  \/ \E u \in StlUrls \cup JsonUrls : OptimizedEffect(u)
  \/ \E i \in 1..MaxLodLoads, d \in 0..MaxLodDim, n \in 1..MaxLevels :
       loadOptimizedModel(i, d, n)
  \/ \E i \in 1..MaxLodLoads : loadOptimizedModelFails(i)
  \/ \E i \in 1..MaxLodLoads, d \in 0..MaxLodDim : OptimizedStlOnLoad(i, d)
  \/ \E i \in 1..MaxLodLoads : OptimizedStlOnError(i)
  \/ \E z \in Distances \cup {cameraZ} : ControlsChange(z)

\* The page and its calculator
InitPage == InitOf({"page"})

NextPage ==
  \/ \E k \in DOMAIN SAMPLE_MODELS : SampleClick(k)
  \/ \E files \in FileLists : handleFileUpload(files)
  \/ \E e \in Expressions : setExpression(e)
  \/ calculateExpression

Spec == Init /\ [][Next]_vars

SpecPage == InitPage /\ [][NextPage]_vars

\* The viewer with its animation loop, through an unmount
NextUnmount == Next \/ animate \/ Unmount

SpecUnmount == Init /\ [][NextUnmount]_vars

SpecLOD == InitLOD /\ [][NextLOD]_vars

\* A load in flight ends: the loader calls onLoad or onError, the awaited
\* promise settles.
Settle ==
  \E i \in 1..MaxLoads :
    \/ ViewerLoadFails(i) \/ \E c \in Centres : ViewerOnLoad(i, c)
    \/ HookOnError(i) \/ \E d \in 0..MaxDim : HookOnLoad(i, d)
    \/ \E at \in ThrowPoints : HookOnLoadThrows(i, at)
    \/ loadModelRejected(i) \/ \E d \in 0..MaxDim : loadModelResolved(i, d)
    \/ EffectOnError(i) \/ EffectOnLoadThrows(i)
    \/ \E d \in 0..MaxDim : EffectOnLoad(i, d)

FairSpec == Spec /\ WF_vars(Settle)

----------------------------------------------------------------------------
(* The claims.                                                             *)

\* A finite number: neither Infinity nor NaN
IsFinite(a) == a.k = "fin"

ErrorToasts(i) ==
  {k \in DOMAIN toasts : toasts[k].load = i /\ toasts[k].kind = "error"}

\* C1: in the callback-based loaders the scene has at most one model mesh
\* attached in every reachable state, whatever the order the loads end in.
C1_AtMostOneMesh ==
  variant \in {"viewer", "hook", "effect"} => Cardinality(scene) <= 1

\* Load 2 succeeded first, load 1 after it: one mesh, the one of load 1.
C1_Witness ==
  /\ variant = "hook"
  /\ Len(loads) >= 2 /\ loads[1].st = "ok" /\ loads[2].st = "ok"
  /\ last.op = "loaded" /\ last.load = 1 /\ last.replaced = 2
  /\ scene = {1}

\* C2: in the promise-based loadModel at most one model mesh is attached to
\* the scene in every reachable state, also when a second URL is selected
\* while the first load is pending and both succeed.
C2_AtMostOneMeshPromise == variant = "promise" => Cardinality(scene) <= 1

\* C3: when a successfully loaded model replaces a mesh that was attached
\* before, that mesh's geometry and material have been disposed by the time
\* the new mesh is attached.
C3_PreviousDisposed ==
  (last.op = "loaded" /\ last.replaced # NoMesh) =>
    (last.replaced \in geomDisposed /\ last.replaced \in matDisposed)

\* The listener the payload of the displayed mesh added, if it added one
ListenersOf(m) == {k \in DOMAIN listeners : listeners[k].data = m}

C7_LoadingEnds == isLoading ~> ~isLoading

\* The onLoad callback of the hook threw, and the overlay is down.
C7_Witness ==
  /\ variant = "hook"
  /\ last.op = "threw" /\ loads[last.load].st = "threw"
  /\ Pending = {}
  /\ ~isLoading

\* C8: when the STL load of a URL fails, useModelLoader ends with isLoading
\* false and error 'Failed to load model', has shown the error toast exactly
\* once for that failure, and starts no load again before modelUrl changes.
C8_FailedLoad ==
  variant = "hook" =>
    /\ last.op = "failed" => (~isLoading /\ error = "Failed to load model")
    /\ \A i \in 1..Len(loads) :
         loads[i].st = "failed" =>
           /\ Cardinality(ErrorToasts(i)) = 1
           /\ \A k \in ErrorToasts(i) : toasts[k].msg = "Failed to load model"
    /\ \A i \in 1..(Len(loads) - 1) : loads[i + 1].url # loads[i].url
    /\ loads # <<>> => loads[Len(loads)].url = modelUrl

\* The load of the second URL failed; the first URL was not loaded again.
C8_Witness ==
  /\ variant = "hook"
  /\ Len(loads) = 2
  /\ last.op = "failed" /\ last.load = 2
  /\ Cardinality(ErrorToasts(2)) = 1
  /\ ~isLoading /\ error = "Failed to load model"

\* A load fails: its onError callback, or the catch of loadModel, runs
FailureHandler == \E i \in Pending : loads' = Finish(i, "failed")

\* C9 as stated: after the load of a newly selected URL failed, the mesh
\* displayed before that selection is still attached to the scene and the
\* camera position is what it was (no other load ran in between: the
\* selection found none in flight, and none was started after it).
C9_FailureKeepsMesh ==
  (last.op = "failed" /\ last.load = Len(loads) /\ loads[last.load].alone) =>
    /\ loads[last.load].shown \subseteq scene
    /\ cameraZ = loads[last.load].camZ

\* C9 as amended: the handler of a failed load changes the loading flag, the
\* error value and the toasts only: the scene, meshRef, the disposals and the
\* camera position are what they were when the handler started.
C9_FailureHandlerFrame ==
  [][FailureHandler =>
       /\ scene' = scene /\ meshRef' = meshRef /\ cameraZ' = cameraZ
       /\ geomDisposed' = geomDisposed /\ matDisposed' = matDisposed
       /\ meshScale' = meshScale /\ geom' = geom /\ modelUrl' = modelUrl]_vars

\* A load failed after the selection had detached the mesh displayed before.
C9_Witness ==
  /\ variant \in {"hook", "promise"}
  /\ last.op = "failed" /\ last.load = Len(loads) /\ loads[last.load].alone
  /\ loads[last.load].shown # {}
  /\ scene = {}
  /\ meshRef # NoMesh

\* C10: for a model with a degenerate bounding box (maxDim = 0) the mesh
\* scale and the camera z position the loader computes are finite numbers.
C10_FiniteFit ==
  /\ IsFinite(cameraZ)
  /\ \A m \in DOMAIN meshScale : IsFinite(meshScale[m])

\* The centre of the mesh's bounding box in world coordinates: the centre of
\* the geometry's bounding box plus the position of the mesh
WorldCentre(p) == p.box + p.pos

\* C11: after a successful load in ThreeViewer the centre of the mesh's
\* bounding box in world coordinates is the origin, for every input geometry
\* whatever the centre of its bounding box was.
C11_ViewerCentred ==
  (variant = "viewer" /\ last.op = "loaded") => WorldCentre(placed) = 0

\* C12: when evaluating the expression fails (it throws, or yields undefined
\* or null), calculateExpression shows the 'Invalid expression' error toast
\* and leaves the result and the expression text as they were.
C12_FailedEvalKeepsState ==
  [][(last'.op = "calculate" /\ eval(expression).kind # "value") =>
       /\ toasts' = Toast("error", "Invalid expression", 0)
       /\ result' = result
       /\ expression' = expression]_vars

\* The file input fired a change event that carried no file
NoFileEvent == last'.op = "nofile"

\* C13: selectedModel starts as the URL of the first sample model and is in
\* every reachable state one of the four sample URLs or a blob URL made for
\* an uploaded file; a change event of the file input that carries no file
\* leaves it as it was and shows no toast.
C13_SelectedModel ==
  /\ selectedModel = SAMPLE_MODELS[1].url
  /\ [](selectedModel \in SampleUrls \cup BlobUrls)
  /\ [][NoFileEvent => (selectedModel' = selectedModel /\ toasts' = toasts)]_vars

\* A file was uploaded, then the input fired without a file: the blob URL
\* of the upload is still selected.
C13_Witness ==
  /\ variant = "page"
  /\ last.op = "nofile"
  /\ uploads = 1 /\ selectedModel = createObjectURL(1)
  /\ Len(toasts) = 1

\* C14: once every started load has completed, the mesh attached to the scene
\* is the one loaded from the currently selected URL (the load started last),
\* whatever the order the loads completed in.
C14_SelectedModelDisplayed ==
  (/\ variant \in {"viewer", "hook"}
   /\ loads # <<>> /\ Pending = {}
   /\ loads[Len(loads)].st = "ok") => scene = {Len(loads)}

\* C15: isLoading is true in every state in which a started load has not yet
\* called its success or error callback, overlapping loads included.
C15_LoadingWhilePending ==
  (variant \in {"hook", "effect"} /\ Pending # {}) => isLoading

\* C16: in useModelLoader isLoading = true and error # null never hold
\* together, for every sequence of URL changes and load completions: the
\* loading overlay and the error overlay are never shown at the same time.
C16_LoadingXorError ==
  variant = "hook" => ~(isLoading /\ error # NoError)

\* A load failed and set the error; the next selection cleared it and raised
\* the loading flag.
C16_Witness ==
  /\ variant = "hook"
  /\ last.op = "select" /\ last.load >= 2
  /\ loads[last.load - 1].st \in {"failed", "threw"}
  /\ isLoading /\ error = NoError

\* C17: whenever meshRef.current is defined, the mesh it refers to is attached
\* to the scene and has not been disposed, also after the cleanup that runs
\* on a URL change and while the replacement load is pending.
C17_MeshRefAttached ==
  (variant \in {"hook", "promise"} /\ meshRef # NoMesh) =>
    /\ meshRef \in scene
    /\ meshRef \notin geomDisposed \cup matDisposed

\* C18: after the viewer is unmounted no animation frame runs (animate
\* neither schedules the next frame nor calls renderer.render), and a load
\* callback that completes after the unmount attaches no mesh to the scene.
C18_QuietAfterUnmount ==
  ~mounted =>
    /\ last.op # "render"
    /\ last.op = "loaded" => last.load \notin scene

====
